---- MODULE Spec2Model ----
(***************************************************************************)
(* Model of examples/model-deployment-skeleton/app.py: a Flask application *)
(* with two view functions, health and predict, served by worker threads.  *)
(* Each worker receives a request, pushes it as its request context,       *)
(* routes it through the application's url_map, runs the matched view      *)
(* function line by line, and sends the response.                          *)
(*                                                                         *)
(* A path is the sequence of its segments: "/health" is <<"health">>,      *)
(* "/static/x" is <<"static", "x">>, "/health/" is <<"health", "">>.       *)
(* A JSON value is a pair <<type, canonical text>>; a JSON object body is  *)
(* the set of its <<key, value>> members.                                  *)
(***************************************************************************)
EXTENDS Integers, Sequences, FiniteSets

VARIABLES
    ctx,        \* ctx[w]: the request worker w is handling (flask.request)
    pc,         \* pc[w]: where worker w is in handling it
    endpoint,   \* endpoint[w]: what routing gave: a view function, "404", "405"
    ran,        \* ran[w]: the view function that was entered, if any
    data,       \* data[w]: predict's local variable `data`
    resp,       \* resp[w]: the response to worker w's request
    last        \* the exchange the client completed last (SpecRepeat only)

vars == <<ctx, pc, endpoint, ran, data, resp, last>>

\* Number of worker threads serving requests at the same time.
NumWorkers == 2

Workers == 1..NumWorkers

----------------------------------------------------------------------------
\* Requests

Methods == {"GET", "HEAD", "OPTIONS", "POST", "PUT", "DELETE"}

Paths == {<<"health">>, <<"predict">>, <<"unknown">>, <<"health", "">>, <<"static", "x">>}

\* "" is a request that declares no content type.
ContentTypes == {"application/json", "text/plain", ""}

\* Raw request bodies: missing, not JSON, and JSON texts (two of them falsy).
Bodies == {"", "hello", "null", "{}", "{ \"x\": 1 }"}

Requests == [method : Methods, path : Paths, ctype : ContentTypes, body : Bodies]

Request(method, path, ctype, body) ==
    [method |-> method, path |-> path, ctype |-> ctype, body |-> body]

\* The requests the workers other than the first draw from: one for each way
\* through the application.
SampleRequests ==
    {Request("GET", <<"health">>, "", ""),
     Request("GET", <<"static", "x">>, "", ""),
     Request("GET", <<"predict">>, "", ""),
     Request("POST", <<"predict">>, "application/json", "hello"),
     Request("POST", <<"predict">>, "application/json", "null"),
     Request("POST", <<"predict">>, "application/json", "{ \"x\": 1 }")}

NoRequest == Request("", <<>>, "", "")

----------------------------------------------------------------------------
\* JSON values

Str(s) == <<"string", s>>

JNull == <<"null", "null">>

ParseError == <<"error", "">>

NoData == <<"unset", "">>

\* json.loads on the raw body: the parsed value, or ParseError.
JsonLoads(raw) ==
    CASE raw = "null" -> JNull
      [] raw = "{}" -> <<"object", "{}">>
      [] raw = "{ \"x\": 1 }" -> <<"object", "{\"x\":1}">>
      [] OTHER -> ParseError

----------------------------------------------------------------------------
\* Responses

Response(status, mimetype, body) ==
    [status |-> status, mimetype |-> mimetype, body |-> body]

NoResponse == Response(0, "", {})

\* jsonify(obj): status 200, a JSON document.
jsonify(obj) == Response(200, "application/json", obj)

\* The framework's rendering of an HTTP error (an HTML page).
HttpError(status, name) == Response(status, "text/html", {<<"title", Str(name)>>})

NotFound == HttpError(404, "Not Found")

MethodNotAllowed == HttpError(405, "Method Not Allowed")

BadRequest == HttpError(400, "Bad Request")

\* The framework's automatic answer to OPTIONS on a registered rule.
DefaultOptionsResponse == Response(200, "text/html", {})

HasKey(body, k) == \E m \in body : m[1] = k

ValueOf(body, k) == (CHOOSE m \in body : m[1] = k)[2]

----------------------------------------------------------------------------
\* Routing: the application's url_map

\* The converter segment of the static rule, "/static/<path:filename>".
PathConverter == "<path:filename>"

\* Whether a rule's pattern matches a request path, segment by segment. Rules
\* are strict about slashes: "/health/" does not match "/health".
RECURSIVE PathMatches(_, _)

\* Mutant: a rule matches every path its pattern is a prefix of.
RECURSIVE PathMatchesPrefix(_, _)
PathMatchesPrefix(pattern, path) ==
    IF pattern = <<>> THEN TRUE
    ELSE IF Head(pattern) = PathConverter THEN path # <<>> /\ Head(path) # ""
    ELSE /\ path # <<>>
         /\ Head(path) = Head(pattern)
         /\ PathMatchesPrefix(Tail(pattern), Tail(path))

PathMatches(pattern, path) ==
    IF pattern = <<>> THEN path = <<>>
    ELSE IF Head(pattern) = PathConverter THEN path # <<>> /\ Head(path) # ""
    ELSE /\ path # <<>>
         /\ Head(path) = Head(pattern)
         /\ PathMatches(Tail(pattern), Tail(path))

\* The methods a rule answers: the declared ones, HEAD when GET is declared,
\* and OPTIONS, which the framework answers itself.
RuleMethods(declared) ==
    declared \cup (IF "GET" \in declared THEN {"HEAD"} ELSE {}) \cup {"OPTIONS"}

Rule(pattern, view, declared) ==
    [rule |-> pattern, endpoint |-> view, methods |-> RuleMethods(declared)]

\* Mutant: the health route declared for every method.
HealthMethodsAny == Methods

\* @app.route('/health'): no methods given, so GET.
HealthMethods == {"GET"}

\* @app.route('/predict', methods=['POST','GET'])
PredictMethods == {"POST", "GET"}

\* Flask(__name__) registers "/static/<path:filename>" for the static folder.
StaticRule == Rule(<<"static", PathConverter>>, "static", {"GET"})

HealthRule == Rule(<<"health">>, "health", HealthMethods)

\* Mutant: the predict route declared with a catch-all pattern.
PredictRuleCatchAll == Rule(<<PathConverter>>, "predict", PredictMethods)

PredictRule == Rule(<<"predict">>, "predict", PredictMethods)

\* The rules in the order they are registered.
url_map == <<StaticRule, HealthRule, PredictRule>>

Min(S) == CHOOSE i \in S : \A j \in S : i <= j

\* Mutant: the first rule matching the path is taken, whatever the method.
MatchPathOnly(rules, method, path) ==
    LET matching == {i \in 1..Len(rules) : PathMatches(rules[i].rule, path)}
    IN IF matching # {} THEN rules[Min(matching)].endpoint ELSE "404"

\* Matching a request against a list of rules: the endpoint of the first rule
\* that matches path and method, "405" when rules match the path but none
\* allows the method, "404" when no rule matches the path.
Match(rules, method, path) ==
    LET matching == {i \in 1..Len(rules) : PathMatches(rules[i].rule, path)}
        allowed == {i \in matching : method \in rules[i].methods}
    IN IF allowed # {} THEN rules[Min(allowed)].endpoint
       ELSE IF matching # {} THEN "405"
       ELSE "404"

----------------------------------------------------------------------------
\* Request handling

\* The highest-numbered worker in S.
Max(S) == CHOOSE v \in S : \A u \in S : u <= v

\* Mutant: one request object shared by all workers instead of a context
\* local one.
SharedRequest(w) == ctx[Max({v \in Workers : ctx[v] # NoRequest})]

\* The `request` proxy inside a view function: the worker's own context.
CurrentRequest(w) == ctx[w]

\* Mutant: JSON is recognised by sniffing the body, not by the content type.
is_json_sniffed(r) == JsonLoads(r.body) # ParseError

\* request.is_json: the declared content type is JSON (of ContentTypes, only
\* "application/json" is).
is_json(r) == r.ctype = "application/json"

\* request.get_json(): the parsed body, or ParseError (the framework then
\* aborts the request with 400 Bad Request).
get_json(r) == JsonLoads(r.body)

\* Mutant: the method is not tested.
EchoesInputAnyMethod(w) == is_json(CurrentRequest(w))

\* Line 12: the condition under which predict echoes its input.
EchoesInput(w) ==
    CurrentRequest(w).method = "POST" /\ is_json(CurrentRequest(w))

\* Line 7: the health view's payload.
HealthBody == {<<"status", Str("ok")>>}

\* Line 15: the fixed prediction.
FixedBody == {<<"prediction", Str("dummy")>>}

Falsy(v) == v = JNull \/ v = <<"object", "{}">>

\* Mutant: a falsy input is treated as no input.
EchoBodyTruthy(d) ==
    IF Falsy(d) THEN FixedBody
    ELSE {<<"prediction", Str("dummy")>>, <<"input", d>>}

\* Line 14: the prediction with the input echoed.
EchoBody(d) == {<<"prediction", Str("dummy")>>, <<"input", d>>}

\* Mutant: `data` is a module-level global instead of a local of predict.
GlobalData(w) == data[Max({v \in Workers : data[v] # NoData})]

\* Lines 13-14: predict's local variable `data`.
LocalData(w) == data[w]

\* What is sent for a response: a HEAD request gets the headers only.
Finalize(w, r) == IF ctx[w].method = "HEAD" THEN [r EXCEPT !.body = {}] ELSE r

NoExchange == [req |-> NoRequest, resp |-> NoResponse]

Init ==
    /\ ctx = [w \in Workers |-> NoRequest]
    /\ pc = [w \in Workers |-> "idle"]
    /\ endpoint = [w \in Workers |-> "none"]
    /\ ran = [w \in Workers |-> "none"]
    /\ data = [w \in Workers |-> NoData]
    /\ resp = [w \in Workers |-> NoResponse]
    /\ last = NoExchange

\* The worker's response is ready: the request is finished.
Send(w, r) ==
    /\ resp' = [resp EXCEPT ![w] = Finalize(w, r)]
    /\ pc' = [pc EXCEPT ![w] = "done"]

\* A worker accepts a request from S and pushes its request context.
ReceiveFrom(w, S) ==
    /\ pc[w] = "idle"
    /\ \E r \in S : ctx' = [ctx EXCEPT ![w] = r]
    /\ pc' = [pc EXCEPT ![w] = "dispatch"]
    /\ UNCHANGED <<endpoint, ran, data, resp, last>>

Receive(w) == ReceiveFrom(w, IF w = 1 THEN Requests ELSE SampleRequests)

ReceiveSample(w) == ReceiveFrom(w, SampleRequests)

\* The framework routes the request: an error page, the automatic OPTIONS
\* answer, or the view function of the matched rule.
Dispatch(w) ==
    /\ pc[w] = "dispatch"
    /\ LET ep == Match(url_map, ctx[w].method, ctx[w].path) IN
        /\ endpoint' = [endpoint EXCEPT ![w] = ep]
        /\ CASE ep = "404" -> Send(w, NotFound)
             [] ep = "405" -> Send(w, MethodNotAllowed)
             [] ctx[w].method = "OPTIONS" -> Send(w, DefaultOptionsResponse)
             [] OTHER -> /\ pc' = [pc EXCEPT ![w] = ep]
                         /\ UNCHANGED resp
    /\ UNCHANGED <<ctx, ran, data, last>>

\* The static view: the application ships no static files.
send_static_file(w) ==
    /\ pc[w] = "static"
    /\ ran' = [ran EXCEPT ![w] = "static"]
    /\ Send(w, NotFound)
    /\ UNCHANGED <<ctx, endpoint, data, last>>

\* Lines 6-7.
health(w) ==
    /\ pc[w] = "health"
    /\ ran' = [ran EXCEPT ![w] = "health"]
    /\ Send(w, jsonify(HealthBody))
    /\ UNCHANGED <<ctx, endpoint, data, last>>

\* Lines 10-12 and 15: predict is entered and tests the request.
predict(w) ==
    /\ pc[w] = "predict"
    /\ ran' = [ran EXCEPT ![w] = "predict"]
    /\ IF EchoesInput(w)
       THEN /\ pc' = [pc EXCEPT ![w] = "predict_13"]
            /\ UNCHANGED resp
       ELSE Send(w, jsonify(FixedBody))
    /\ UNCHANGED <<ctx, endpoint, data, last>>

\* Line 13: data = request.get_json()
predict_13(w) ==
    /\ pc[w] = "predict_13"
    /\ LET d == get_json(CurrentRequest(w)) IN
        IF d = ParseError
        THEN /\ Send(w, BadRequest)
             /\ UNCHANGED data
        ELSE /\ data' = [data EXCEPT ![w] = d]
             /\ pc' = [pc EXCEPT ![w] = "predict_14"]
             /\ UNCHANGED resp
    /\ UNCHANGED <<ctx, endpoint, ran, last>>

\* Line 14: return jsonify({'prediction': 'dummy', 'input': data})
predict_14(w) ==
    /\ pc[w] = "predict_14"
    /\ Send(w, jsonify(EchoBody(LocalData(w))))
    /\ UNCHANGED <<ctx, endpoint, ran, data, last>>

\* The response has been sent: the context is popped, the worker is free.
Reset(w) ==
    /\ pc[w] = "done"
    /\ ctx' = [ctx EXCEPT ![w] = NoRequest]
    /\ pc' = [pc EXCEPT ![w] = "idle"]
    /\ endpoint' = [endpoint EXCEPT ![w] = "none"]
    /\ ran' = [ran EXCEPT ![w] = "none"]
    /\ data' = [data EXCEPT ![w] = NoData]
    /\ resp' = [resp EXCEPT ![w] = NoResponse]

Close(w) == Reset(w) /\ UNCHANGED last

\* As Close, and the client keeps the exchange to compare the next one with.
CloseRecord(w) == Reset(w) /\ last' = [req |-> ctx[w], resp |-> resp[w]]

Next ==
    \E w \in Workers :
        \/ Receive(w)
        \/ Dispatch(w)
        \/ send_static_file(w)
        \/ health(w)
        \/ predict(w)
        \/ predict_13(w)
        \/ predict_14(w)
        \/ Close(w)

Spec == Init /\ [][Next]_vars

NextRepeat ==
    \E w \in Workers :
        \/ ReceiveSample(w)
        \/ Dispatch(w)
        \/ send_static_file(w)
        \/ health(w)
        \/ predict(w)
        \/ predict_13(w)
        \/ predict_14(w)
        \/ CloseRecord(w)

SpecRepeat == Init /\ [][NextRepeat]_vars

----------------------------------------------------------------------------
\* Properties

Done(w) == pc[w] = "done"

Routed(w) == pc[w] \notin {"idle", "dispatch"}

OnHealth(w) == Done(w) /\ ctx[w].path = <<"health">>

OnPredict(w) == Done(w) /\ ctx[w].path = <<"predict">>

ValidJson(w) == JsonLoads(ctx[w].body) # ParseError

\* C1 as stated: every finished request to /health, whatever its method and
\* body, has status 200 and body {"status": "ok"}.
C1_AnyMethodHealth ==
    \A w \in Workers :
        OnHealth(w) => resp[w].status = 200 /\ resp[w].body = HealthBody

\* C1 amended: a GET to /health, whatever its body and content type, has
\* status 200 and body {"status": "ok"}; HEAD has status 200 and no body,
\* OPTIONS is answered by the framework without running health, and every
\* other method gets 405 without running health.
C1_GetHealth ==
    \A w \in Workers :
        OnHealth(w) =>
            CASE ctx[w].method = "GET" ->
                    /\ resp[w].status = 200
                    /\ resp[w].body = {<<"status", Str("ok")>>}
                    /\ ran[w] = "health"
              [] ctx[w].method = "HEAD" ->
                    resp[w].status = 200 /\ resp[w].body = {}
              [] ctx[w].method = "OPTIONS" ->
                    resp[w].status = 200 /\ resp[w].body = {} /\ ran[w] = "none"
              [] OTHER -> resp[w].status = 405 /\ ran[w] = "none"

\* A GET to /health carrying a body has been answered while another GET to
\* /health was being handled.
C1_Witness ==
    \E w, v \in Workers :
        /\ OnHealth(w) /\ ctx[w].method = "GET" /\ ctx[w].body = "hello"
        /\ resp[w].status = 200
        /\ v # w /\ pc[v] = "health"

\* C2 as stated: every finished POST to /predict whose body is valid JSON v
\* has status 200 and body {"prediction": "dummy", "input": v}.
C2_ValidBodyEchoed ==
    \A w \in Workers :
        OnPredict(w) /\ ctx[w].method = "POST" /\ ValidJson(w) =>
            /\ resp[w].status = 200
            /\ resp[w].body =
                {<<"prediction", Str("dummy")>>, <<"input", JsonLoads(ctx[w].body)>>}

\* C2 amended: every finished POST to /predict that declares a JSON content
\* type and whose body is valid JSON v (falsy values included) has status 200
\* and body {"prediction": "dummy", "input": v}.
C2_JsonTypeEchoed ==
    \A w \in Workers :
        /\ OnPredict(w) /\ ctx[w].method = "POST" /\ ValidJson(w)
        /\ ctx[w].ctype = "application/json"
        => /\ resp[w].status = 200
           /\ resp[w].body =
                {<<"prediction", Str("dummy")>>, <<"input", JsonLoads(ctx[w].body)>>}

\* A POST to /predict with content type JSON and body null has been answered
\* with input null.
C2_Witness ==
    \E w \in Workers :
        /\ OnPredict(w) /\ ctx[w].method = "POST" /\ ctx[w].body = "null"
        /\ ctx[w].ctype = "application/json"
        /\ HasKey(resp[w].body, "input") /\ ValueOf(resp[w].body, "input") = JNull

\* C3 as stated: every finished POST to /predict whose body is missing or not
\* valid JSON, whatever content type it declares, has status 200 and body
\* exactly {"prediction": "dummy"}.
C3_InvalidBodyFixed ==
    \A w \in Workers :
        OnPredict(w) /\ ctx[w].method = "POST" /\ ~ValidJson(w) =>
            /\ resp[w].status = 200
            /\ resp[w].body = {<<"prediction", Str("dummy")>>}

\* C4: every finished GET to /predict, whatever its body and content type,
\* has status 200 and body exactly {"prediction": "dummy"}, with no input key.
C4_GetPredictFixed ==
    \A w \in Workers :
        OnPredict(w) /\ ctx[w].method = "GET" =>
            /\ resp[w].status = 200
            /\ resp[w].body = {<<"prediction", Str("dummy")>>}
            /\ ~HasKey(resp[w].body, "input")

\* A GET to /predict with a JSON content type and a valid JSON body has been
\* answered.
C4_Witness ==
    \E w \in Workers :
        /\ OnPredict(w) /\ ctx[w].method = "GET"
        /\ ctx[w].ctype = "application/json" /\ ctx[w].body = "{ \"x\": 1 }"
        /\ resp[w].status = 200

OtherPath(w) == Done(w) /\ ctx[w].path \notin {<<"health">>, <<"predict">>}

UnderStatic(path) == Len(path) >= 2 /\ path[1] = "static" /\ path[2] # ""

\* C5 as stated: every finished request whose path is neither /health nor
\* /predict has status 404, and neither health nor predict ran.
C5_OtherPath404 ==
    \A w \in Workers :
        OtherPath(w) => resp[w].status = 404 /\ ran[w] \notin {"health", "predict"}

\* C5 amended: for every finished request whose path is neither /health nor
\* /predict, neither health nor predict ran, and the status is 404, except
\* under /static/, the route the application object registers by itself:
\* there GET and HEAD get 404, OPTIONS gets 200 and every other method 405.
C5_OtherPathNoHandler ==
    \A w \in Workers :
        OtherPath(w) =>
            /\ ran[w] \notin {"health", "predict"}
            /\ resp[w].status =
                IF ~UnderStatic(ctx[w].path) THEN 404
                ELSE IF ctx[w].method \in {"GET", "HEAD"} THEN 404
                ELSE IF ctx[w].method = "OPTIONS" THEN 200
                ELSE 405

\* A POST to /unknown and a request to /static/x have been answered with 404.
C5_Witness ==
    /\ \E w \in Workers :
        /\ OtherPath(w) /\ ctx[w].path = <<"unknown">> /\ ctx[w].method = "POST"
        /\ resp[w].status = 404
    /\ \E w \in Workers :
        /\ OtherPath(w) /\ ctx[w].path = <<"static", "x">> /\ resp[w].status = 404

\* C6: a request that repeats the one the client sent just before gets the
\* same status and the same body, and so do two equal requests whose
\* responses are both pending delivery.
C6_Idempotent ==
    /\ \A w \in Workers :
        Done(w) /\ last # NoExchange /\ ctx[w] = last.req => resp[w] = last.resp
    /\ \A w, v \in Workers :
        Done(w) /\ Done(v) /\ ctx[w] = ctx[v] => resp[w] = resp[v]

\* A POST to /predict has been answered with its input a second time in a
\* row, while another worker had another request in hand.
C6_Witness ==
    \E w, v \in Workers :
        /\ Done(w) /\ ctx[w] = last.req /\ HasKey(resp[w].body, "input")
        /\ v # w /\ pc[v] # "idle" /\ ctx[v] # ctx[w]

\* C7: in every interleaving, the input a response echoes is the parsed body
\* of the request it answers, a response to /predict without input answers a
\* request that is not an echoing one, and equal requests in the hands of
\* different workers get equal responses.
C7_Independent ==
    /\ \A w \in Workers :
        Done(w) /\ HasKey(resp[w].body, "input") =>
            ValueOf(resp[w].body, "input") = JsonLoads(ctx[w].body)
    /\ \A w \in Workers :
        OnPredict(w) /\ resp[w].status = 200 /\ ctx[w].method = "POST"
            /\ ctx[w].ctype = "application/json"
        => HasKey(resp[w].body, "input")
    /\ \A w, v \in Workers :
        Done(w) /\ Done(v) /\ ctx[w] = ctx[v] => resp[w] = resp[v]

\* Two POSTs to /predict with different JSON bodies have been answered at the
\* same time, each with an input.
C7_Witness ==
    \E w, v \in Workers :
        /\ w # v /\ OnPredict(w) /\ OnPredict(v)
        /\ HasKey(resp[w].body, "input") /\ HasKey(resp[v].body, "input")
        /\ ctx[w].body # ctx[v].body

\* C8: a 200 response from /predict has the input key exactly when the
\* method is POST and the declared content type is JSON; a POST whose body is
\* well-formed JSON but whose content type is not JSON gets exactly
\* {"prediction": "dummy"}.
C8_TypeDecidesEcho ==
    \A w \in Workers :
        /\ OnPredict(w) /\ resp[w].status = 200 =>
            (HasKey(resp[w].body, "input")
                <=> ctx[w].method = "POST" /\ ctx[w].ctype = "application/json")
        /\ OnPredict(w) /\ ctx[w].method = "POST" /\ ValidJson(w)
            /\ ctx[w].ctype # "application/json"
           => resp[w].status = 200 /\ resp[w].body = {<<"prediction", Str("dummy")>>}

\* A POST to /predict with a well-formed JSON body declared as text/plain has
\* been answered.
C8_Witness ==
    \E w \in Workers :
        /\ OnPredict(w) /\ ctx[w].method = "POST" /\ ctx[w].ctype = "text/plain"
        /\ ctx[w].body = "{ \"x\": 1 }" /\ resp[w].status = 200

\* C9: a finished request to /predict with a method other than POST, GET,
\* HEAD and OPTIONS did not run predict and has status 405.
C9_MethodNotAllowed ==
    \A w \in Workers :
        OnPredict(w) /\ ctx[w].method \notin {"POST", "GET", "HEAD", "OPTIONS"} =>
            ran[w] = "none" /\ resp[w].status = 405

\* A PUT or DELETE to /predict carrying a JSON body has been refused.
C9_Witness ==
    \E w \in Workers :
        /\ OnPredict(w) /\ ctx[w].method \in {"PUT", "DELETE"}
        /\ ctx[w].ctype = "application/json" /\ ctx[w].body = "{ \"x\": 1 }"
        /\ resp[w].status = 405

\* The orders in which the three rules can be registered.
Orders ==
    {<<url_map[a], url_map[b], url_map[c]>> :
        <<a, b, c>> \in {t \in (1..3) \X (1..3) \X (1..3) :
                            t[1] # t[2] /\ t[1] # t[3] /\ t[2] # t[3]}}

\* C10: the routing outcome of a request (the view function, 404 or 405) is
\* what any order of registration gives, at most one of the health and
\* predict rules matches its path, and two requests with the same method and
\* path have the same outcome whatever their bodies and content types.
C10_RoutingByMethodAndPath ==
    /\ \A w \in Workers :
        Routed(w) =>
            /\ \A o \in Orders : endpoint[w] = Match(o, ctx[w].method, ctx[w].path)
            /\ ~(PathMatches(HealthRule.rule, ctx[w].path)
                    /\ PathMatches(PredictRule.rule, ctx[w].path))
    /\ \A w, v \in Workers :
        /\ Routed(w) /\ Routed(v)
        /\ ctx[w].method = ctx[v].method /\ ctx[w].path = ctx[v].path
        => endpoint[w] = endpoint[v]

\* Two requests with the same method and path and different bodies and
\* content types have both been routed to predict.
C10_Witness ==
    \E w, v \in Workers :
        /\ Routed(w) /\ Routed(v) /\ endpoint[w] = "predict" /\ endpoint[v] = "predict"
        /\ ctx[w].method = ctx[v].method
        /\ ctx[w].body # ctx[v].body /\ ctx[w].ctype # ctx[v].ctype

====
